---- MODULE Spec2Model ----
(***************************************************************************)
(* Parcel routing engine: the greedy per-truck router (router.py), the day *)
(* simulator that shares two drivers among three trucks (simulator.py),    *)
(* and the collaborators they read (distances.py, the Package record, the  *)
(* status reset and the address query of main.py).                         *)
(*                                                                         *)
(* Times are seconds since midnight (a timedelta); distances are whole     *)
(* miles.  With the speeds used here (divisors of 3600) every travel time  *)
(* is a whole number of seconds, so the integer arithmetic below is the    *)
(* timedelta arithmetic of the source.                                     *)
(***************************************************************************)
EXTENDS Integers, Sequences, FiniteSets, TLC

VARIABLES packages, trucks, remaining, pc, phase, loads, holds, total_miles, log,
          matrix, history, table, contents, returned

vars == <<packages, trucks, remaining, pc, phase, loads, holds, total_miles, log,
          matrix, history, table, contents, returned>>

----------------------------------------------------------------------------
(* Values *)

\* Python's None for the optional time fields and for "no package".
None == -1

\* float("inf"), the initial best distance of each tier.
Inf == 1000000

HUB_ADDR == "HUB"

\* timedelta(hours=h, minutes=m), in seconds.
HM(h, m) == h * 3600 + m * 60

HUB_START == HM(8, 0)

\* timedelta(minutes=15)
URGENCY == HM(0, 15)

\* The speed the selection loop divides by (d / 18.0).
SELECT_MPH == 18

DEFAULT_SPEED == 18

DEFAULT_CAPACITY == 16

T0820 == HM(8, 20)
T0830 == HM(8, 30)
T0900 == HM(9, 0)
T0905 == HM(9, 5)
T1030 == HM(10, 30)

\* Longest pkg_ids list handed to route_truck when it is called directly.
MaxLoad == 3

\* Longest load of one truck in a simulated day.
MaxDayLoad == 2

TruckIds == {1, 2, 3}

----------------------------------------------------------------------------
(* distances.py *)

Nodes == 0..4

\* AddressIndex.node_for: the node of an address.
node_for(addr) ==
    CASE addr = "HUB" -> 0
      [] addr = "A" -> 1
      [] addr = "B" -> 2
      [] addr = "C" -> 3
      [] addr = "D" -> 4

\* The distance table as the CSV gives it: row i holds columns 0..i.
RawRows ==
    << <<0>>,
       <<3, 0>>,
       <<5, 4, 0>>,
       <<10, 6, 7, 0>>,
       <<9, 12, 14, 15, 0>> >>

\* A cell of the CSV that is empty after strip().
Blank == None

\* DistanceMatrix.load, first pass: the cells the CSV has, 0.0 elsewhere.
MatrixFill(rows) ==
    [i \in 0..(Len(rows) - 1) |-> [j \in 0..(Len(rows) - 1) |->
        IF j + 1 <= Len(rows[i + 1]) /\ rows[i + 1][j + 1] # Blank
        THEN rows[i + 1][j + 1]
        ELSE 0]]

\* DistanceMatrix.load, second pass: zero diagonal, empty cells mirrored.
\* The loop writes in place; a cell it reads at [j][i] is either untouched or
\* was written only if [i][j] is non-zero (and then [i][j] is not written), so
\* the in-place pass equals this one.
mirror(m) ==
    [i \in DOMAIN m |-> [j \in DOMAIN m |->
        IF i = j THEN 0
        ELSE IF m[i][j] = 0 /\ m[j][i] # 0 THEN m[j][i]
        ELSE m[i][j]]]

\* DistanceMatrix.load: the value of _miles after loading rows.
MatrixLoad(rows) == mirror(MatrixFill(rows))

\* DistanceMatrix.get
Get(i, j) == matrix[i][j]

\* DistanceMatrix.distance_between_addresses
distance_between_addresses(a, b) == Get(node_for(a), node_for(b))

----------------------------------------------------------------------------
(* hash_table.py: ChainingHashTable *)

\* A table is its list of buckets (each a list of <<key, value>> pairs, bucket
\* i of the source being buckets[i + 1]) and its count of pairs.
ChainingHashTable(init_capacity) ==
    [buckets |-> [i \in 1..init_capacity |-> <<>>], size |-> 0]

\* hash() of the keys used here, small non-negative ints, is the int itself.
hash(key) == key

len(tb) == tb.size

table_capacity(tb) == Len(tb.buckets)

\* load_factor() > max_load_factor, with the default 0.75 = 3/4.
exceeds_load_factor(tb) == 4 * tb.size > 3 * Len(tb.buckets)

index(tb, key) == (hash(key) % Len(tb.buckets)) + 1

\* The position of the first pair of the bucket with this key, or 0.
find(bucket, key) ==
    LET hits == {i \in 1..Len(bucket) : bucket[i][1] = key}
    IN IF hits = {} THEN 0 ELSE CHOOSE i \in hits : \A j \in hits : i <= j

\* All pairs, bucket by bucket.
RECURSIVE items_from(_, _)
items_from(tb, b) ==
    IF b > Len(tb.buckets) THEN <<>> ELSE tb.buckets[b] \o items_from(tb, b + 1)

items(tb) == items_from(tb, 1)

\* The loop of _resize: each old pair is appended to its bucket of the new
\* array.
RECURSIVE rehash(_, _, _)
rehash(new_buckets, old, i) ==
    IF i > Len(old) THEN new_buckets
    ELSE rehash([new_buckets EXCEPT ![(hash(old[i][1]) % Len(new_buckets)) + 1] =
                     Append(@, old[i])],
                old, i + 1)

\* A variant that counts the rehashed pairs on top of the old count.
resize_count_kept(tb, new_capacity) ==
    [buckets |-> rehash([i \in 1..new_capacity |-> <<>>], items(tb), 1),
     size |-> tb.size + Len(items(tb))]

resize(tb, new_capacity) ==
    [buckets |-> rehash([i \in 1..new_capacity |-> <<>>], items(tb), 1),
     size |-> Len(items(tb))]

insert(tb, key, value) ==
    LET idx == index(tb, key)
        bucket == tb.buckets[idx]
        i == find(bucket, key)
        added == [buckets |-> [tb.buckets EXCEPT ![idx] = Append(bucket, <<key, value>>)],
                  size |-> tb.size + 1]
    IN IF i # 0
       THEN [tb EXCEPT !.buckets[idx][i] = <<key, value>>]
       ELSE IF exceeds_load_factor(added)
            THEN resize(added, Len(added.buckets) * 2)
            ELSE added

search(tb, key) ==
    LET bucket == tb.buckets[index(tb, key)]
        i == find(bucket, key)
    IN IF i # 0 THEN bucket[i][2] ELSE None

\* The table after remove(key), and what the call returns.
remove(tb, key) ==
    LET idx == index(tb, key)
        bucket == tb.buckets[idx]
        i == find(bucket, key)
    IN IF i # 0
       THEN [table |-> [buckets |-> [tb.buckets EXCEPT ![idx] =
                                        SubSeq(bucket, 1, i - 1)
                                        \o SubSeq(bucket, i + 1, Len(bucket))],
                        size |-> tb.size - 1],
             result |-> TRUE]
       ELSE [table |-> tb, result |-> FALSE]

contains(tb, key) == search(tb, key) # None

\* The routing specifications keep the store as the function `packages` and
\* leave the table aside, empty with a single bucket; the table is driven on
\* its own in SpecHash.
Untouched ==
    /\ table = ChainingHashTable(1)
    /\ contents = <<>>
    /\ returned = [op |-> "new", key |-> None, result |-> None, had |-> FALSE]

----------------------------------------------------------------------------
(* main.py: the Package record and the store *)

\* A Package as load_packages_csv creates it, with the given constraints.
Package(street, deadline_time, available_time, correction_time, corrected_street) ==
    [street |-> street, deadline_time |-> deadline_time,
     available_time |-> available_time, correction_time |-> correction_time,
     corrected_street |-> corrected_street,
     status |-> "At the hub", departure_time |-> None, delivery_time |-> None,
     truck_id |-> None]

\* The package store: six records.  1..3 are unconstrained, 4 has a 9:00
\* deadline, 5 is delayed to 9:05 (and re-addressed at 8:30, before it arrives),
\* 6 is re-addressed at 8:20 while already available.
StoreIds == 1..6

\* IDs that load lists may name and the store does not hold.
MissingIds == {9}

Catalogue ==
    [pid \in StoreIds |->
        CASE pid = 1 -> Package("A", None, 0, None, "")
          [] pid = 2 -> Package("B", None, 0, None, "")
          [] pid = 3 -> Package("C", None, 0, None, "")
          [] pid = 4 -> Package("D", T0900, 0, None, "")
          [] pid = 5 -> Package("B", T1030, T0905, T0830, "C")
          [] pid = 6 -> Package("D", None, 0, T0820, "B")]

\* ChainingHashTable.search on the store: the record, or None when absent.
InStore(pid) == pid \in DOMAIN packages

\* A variant of the reset that leaves the timestamps in place.
reset_status_only(pkgs) ==
    [pid \in DOMAIN pkgs |-> [pkgs[pid] EXCEPT !.status = "At the hub", !.truck_id = None]]

\* reset_package_statuses, on the store pkgs.
reset_package_statuses(pkgs) ==
    [pid \in DOMAIN pkgs |->
        [pkgs[pid] EXCEPT !.status = "At the hub", !.departure_time = None,
                          !.delivery_time = None, !.truck_id = None]]

\* address_at_time
address_at_time(pkg, query) ==
    IF pkg.correction_time # None /\ pkg.corrected_street # ""
       /\ query >= pkg.correction_time
    THEN pkg.corrected_street
    ELSE pkg.street

----------------------------------------------------------------------------
(* router.py *)

\* The Truck dataclass with its defaults.
Truck(id, speed_mph, capacity, start_time) ==
    [id |-> id, speed_mph |-> speed_mph, capacity |-> capacity,
     start_time |-> start_time, current_addr |-> HUB_ADDR, clock |-> HUB_START,
     miles |-> 0, load |-> <<>>]

travel_time(miles, mph) == IF mph > 0 THEN (miles * 3600) \div mph ELSE 0

\* travel_hours = d / 18.0, kept in seconds.
travel_hours(d) == (d * 3600) \div SELECT_MPH

would_miss_deadline(current_clock, travel, deadline) ==
    IF deadline = None THEN FALSE
    ELSE current_clock + travel > deadline

\* A variant in which the correction takes effect only after its time.
candidate_addr_after(pkg, current_clock) ==
    IF pkg.correction_time # None /\ pkg.corrected_street # ""
       /\ current_clock > pkg.correction_time
    THEN pkg.corrected_street
    ELSE pkg.street

\* The address the selection loop measures to (lines 71-75) and the delivery
\* records as the truck's place (lines 170-175).
candidate_addr(pkg, current_clock) ==
    IF pkg.correction_time # None /\ pkg.corrected_street # ""
       /\ current_clock >= pkg.correction_time
    THEN pkg.corrected_street
    ELSE pkg.street

\* Lines 77-78 and 83: whether the loop classifies pkg as missing its deadline
\* when driven to from current_addr at current_clock.
misses(pkg, current_addr, current_clock) ==
    would_miss_deadline(
        current_clock,
        travel_hours(distance_between_addresses(current_addr,
                                                candidate_addr(pkg, current_clock))),
        pkg.deadline_time)

NoPick ==
    [urgent_pick |-> None, urgent_dist |-> Inf,
     best_on_pid |-> None, best_on_dist |-> Inf,
     best_any_pid |-> None, best_any_dist |-> Inf]

\* A variant of the loop body without the availability test of lines 68-69.
scan_one_any_time(acc, pid, current_addr, current_clock, pkgs) ==
    IF pid \notin DOMAIN pkgs THEN acc
    ELSE
      LET pkg == pkgs[pid]
          d == distance_between_addresses(current_addr, candidate_addr(pkg, current_clock))
          a1 == IF d < acc.best_any_dist
                THEN [acc EXCEPT !.best_any_pid = pid, !.best_any_dist = d]
                ELSE acc
          ontime == ~misses(pkg, current_addr, current_clock)
          a2 == IF ontime /\ d < a1.best_on_dist
                THEN [a1 EXCEPT !.best_on_pid = pid, !.best_on_dist = d]
                ELSE a1
          slack == pkg.deadline_time - (current_clock + travel_hours(d))
          a3 == IF ontime /\ pkg.deadline_time # None
                   /\ slack <= URGENCY /\ d < a2.urgent_dist
                THEN [a2 EXCEPT !.urgent_pick = pid, !.urgent_dist = d]
                ELSE a2
      IN a3

\* One pass of the for loop of _nearest_next over one pid.
scan_one(acc, pid, current_addr, current_clock, pkgs) ==
    IF pid \notin DOMAIN pkgs THEN acc
    ELSE IF current_clock < pkgs[pid].available_time THEN acc
    ELSE
      LET pkg == pkgs[pid]
          d == distance_between_addresses(current_addr, candidate_addr(pkg, current_clock))
          th == travel_hours(d)
          a1 == IF d < acc.best_any_dist
                THEN [acc EXCEPT !.best_any_pid = pid, !.best_any_dist = d]
                ELSE acc
          ontime == ~misses(pkg, current_addr, current_clock)
          a2 == IF ontime /\ d < a1.best_on_dist
                THEN [a1 EXCEPT !.best_on_pid = pid, !.best_on_dist = d]
                ELSE a1
          slack == pkg.deadline_time - (current_clock + th)
          a3 == IF ontime /\ pkg.deadline_time # None
                   /\ slack <= URGENCY /\ d < a2.urgent_dist
                THEN [a2 EXCEPT !.urgent_pick = pid, !.urgent_dist = d]
                ELSE a2
      IN a3

\* A variant in which an ID without a record ends the pass (break for continue).
RECURSIVE scan_stop_at_missing(_, _, _, _, _, _)
scan_stop_at_missing(acc, rem, i, current_addr, current_clock, pkgs) ==
    IF i > Len(rem) \/ rem[i] \notin DOMAIN pkgs THEN acc
    ELSE scan_stop_at_missing(scan_one(acc, rem[i], current_addr, current_clock, pkgs),
                              rem, i + 1, current_addr, current_clock, pkgs)

\* The for loop of _nearest_next from position i on.
RECURSIVE scan(_, _, _, _, _, _)
scan(acc, rem, i, current_addr, current_clock, pkgs) ==
    IF i > Len(rem) THEN acc
    ELSE scan(scan_one(acc, rem[i], current_addr, current_clock, pkgs),
              rem, i + 1, current_addr, current_clock, pkgs)

\* A variant that prefers the nearest on-time candidate to an urgent one.
nearest_next_on_time_first(current_addr, current_clock, rem, pkgs) ==
    LET acc == scan(NoPick, rem, 1, current_addr, current_clock, pkgs)
    IN IF acc.best_on_pid # None THEN <<acc.best_on_pid, acc.best_on_dist>>
       ELSE IF acc.urgent_pick # None THEN <<acc.urgent_pick, acc.urgent_dist>>
       ELSE IF acc.best_any_pid # None THEN <<acc.best_any_pid, acc.best_any_dist>>
       ELSE <<None, 0>>

\* A variant that takes the first listed candidate instead of the nearest.
nearest_next_first_listed(current_addr, current_clock, rem, pkgs) ==
    LET ok == {i \in 1..Len(rem) :
                  rem[i] \in DOMAIN pkgs /\ current_clock >= pkgs[rem[i]].available_time}
    IN IF ok = {} THEN <<None, 0>>
       ELSE LET pid == rem[CHOOSE i \in ok : \A j \in ok : i <= j]
            IN <<pid, distance_between_addresses(
                          current_addr, candidate_addr(pkgs[pid], current_clock))>>

\* _nearest_next: <<pid or None, distance>>.
nearest_next(current_addr, current_clock, rem, pkgs) ==
    LET acc == scan(NoPick, rem, 1, current_addr, current_clock, pkgs)
    IN IF acc.urgent_pick # None THEN <<acc.urgent_pick, acc.urgent_dist>>
       ELSE IF acc.best_on_pid # None THEN <<acc.best_on_pid, acc.best_on_dist>>
       ELSE IF acc.best_any_pid # None THEN <<acc.best_any_pid, acc.best_any_dist>>
       ELSE <<None, 0>>

----------------------------------------------------------------------------
(* route_truck *)

Min(a, b) == IF a < b THEN a ELSE b

Max(a, b) == IF a < b THEN b ELSE a

SetMin(S) == CHOOSE x \in S : \A y \in S : x <= y

\* A variant that loads the whole list.
truncate_nothing(pkg_ids, capacity) == pkg_ids

\* pkg_ids[: truck.capacity]
truncate(pkg_ids, capacity) == SubSeq(pkg_ids, 1, Min(capacity, Len(pkg_ids)))

Range(s) == {s[i] : i \in 1..Len(s)}

\* list.remove(x): drops the first occurrence.
remove_first(s, x) ==
    LET i == CHOOSE k \in 1..Len(s) : s[k] = x /\ \A j \in 1..(k - 1) : s[j] # x
    IN SubSeq(s, 1, i - 1) \o SubSeq(s, i + 1, Len(s))

\* A variant that tags every package of the store.
tag_whole_store(pkgs, load, tr) ==
    [pid \in DOMAIN pkgs |-> [pkgs[pid] EXCEPT !.truck_id = tr.id]]

\* A variant that tags only the packages available at the start time.
tag_available_only(pkgs, load, tr) ==
    [pid \in DOMAIN pkgs |->
        IF pid \in Range(load) /\ pkgs[pid].available_time <= tr.start_time
        THEN [pkgs[pid] EXCEPT !.truck_id = tr.id]
        ELSE pkgs[pid]]

\* Lines 127-130: every loaded package the store holds gets the truck's id.
tag(pkgs, load, tr) ==
    [pid \in DOMAIN pkgs |->
        IF pid \in Range(load) THEN [pkgs[pid] EXCEPT !.truck_id = tr.id] ELSE pkgs[pid]]

\* Lines 121-132 on the truck tr and the store pkgs handed to route_truck:
\* load, reset clock and place, tag the loaded packages.  The result is the
\* state of the call at the top of its loop.
enter(tr, pkg_ids, pkgs) ==
    LET load == truncate(pkg_ids, tr.capacity)
    IN [truck |-> [tr EXCEPT !.load = load,
                             !.clock = tr.start_time,
                             !.current_addr = HUB_ADDR],
        packages |-> tag(pkgs, load, tr),
        remaining |-> load,
        pc |-> "loop"]

RouteEnter(t, tr, pkg_ids) ==
    LET r == enter(tr, pkg_ids, packages)
    IN /\ trucks' = [trucks EXCEPT ![t] = r.truck]
       /\ packages' = r.packages
       /\ remaining' = [remaining EXCEPT ![t] = r.remaining]
       /\ pc' = [pc EXCEPT ![t] = r.pc]

\* What _nearest_next returns at the top of truck t's current iteration.
Pick(t) == nearest_next(trucks[t].current_addr, trucks[t].clock, remaining[t], packages)

\* A variant of the departure stamp that records the package's availability
\* time instead of the truck clock.
stamp_departure_at_available(pkg, clock) ==
    IF pkg.departure_time = None /\ clock >= pkg.available_time
    THEN [pkg EXCEPT !.departure_time = pkg.available_time, !.status = "En route"]
    ELSE pkg

\* A variant of the departure stamp that marks the package without recording
\* the time.
stamp_departure_status_only(pkg, clock) ==
    IF pkg.departure_time = None /\ clock >= pkg.available_time
    THEN [pkg EXCEPT !.status = "En route"]
    ELSE pkg

\* Lines 138-142: the departure stamp of the package just chosen.
stamp_departure(pkg, clock) ==
    IF pkg.departure_time = None /\ clock >= pkg.available_time
    THEN [pkg EXCEPT !.departure_time = clock, !.status = "En route"]
    ELSE pkg

\* Lines 136-142 and 163-178: one iteration that found a next stop, on the
\* state rs of the call.
deliver(rs) ==
    LET tr == rs.truck
        pick == nearest_next(tr.current_addr, tr.clock, rs.remaining, rs.packages)
        next_pid == pick[1]
        dist == pick[2]
        clock2 == tr.clock + travel_time(dist, tr.speed_mph)
        pkg == stamp_departure(rs.packages[next_pid], tr.clock)
        addr == candidate_addr(pkg, clock2)
    IN [rs EXCEPT !.truck = [tr EXCEPT !.miles = tr.miles + dist,
                                       !.clock = clock2,
                                       !.current_addr = addr],
                  !.packages = [rs.packages EXCEPT ![next_pid] =
                                   [pkg EXCEPT !.delivery_time = clock2,
                                               !.status = "Delivered"]],
                  !.remaining = remove_first(rs.remaining, next_pid)]

\* The state of truck t's call, as the iteration operators take it.
Call(t) ==
    [truck |-> trucks[t], packages |-> packages, remaining |-> remaining[t], pc |-> pc[t]]

RouteDeliver(t) ==
    /\ pc[t] = "loop"
    /\ remaining[t] # <<>>
    /\ Pick(t)[1] # None
    /\ LET r == deliver(Call(t))
       IN /\ trucks' = [trucks EXCEPT ![t] = r.truck]
          /\ packages' = r.packages
          /\ remaining' = [remaining EXCEPT ![t] = r.remaining]
          /\ log' = [log EXCEPT ![t] = Append(log[t],
                        [ev |-> "deliver", pid |-> Pick(t)[1], from |-> trucks[t].current_addr,
                         at |-> trucks[t].clock, dist |-> Pick(t)[2]])]
    /\ UNCHANGED <<pc, phase, loads, holds, matrix, history, total_miles, table, contents, returned>>

\* Lines 136-142 on their own: the next stop is chosen and stamped, and the
\* truck is on its way there.
RouteChoose(t) ==
    /\ pc[t] = "loop"
    /\ remaining[t] # <<>>
    /\ Pick(t)[1] # None
    /\ packages' = [packages EXCEPT ![Pick(t)[1]] = stamp_departure(@, trucks[t].clock)]
    /\ pc' = [pc EXCEPT ![t] = "travel"]
    /\ UNCHANGED <<trucks, remaining, phase, loads, holds, matrix, history, total_miles, log, table, contents, returned>>

\* Lines 163-178 on their own: the truck arrives at the stop chosen by
\* RouteChoose and delivers.
RouteArrive(t) ==
    /\ pc[t] = "travel"
    /\ LET r == deliver(Call(t))
       IN /\ trucks' = [trucks EXCEPT ![t] = r.truck]
          /\ packages' = r.packages
          /\ remaining' = [remaining EXCEPT ![t] = r.remaining]
          /\ log' = [log EXCEPT ![t] = Append(log[t],
                        [ev |-> "deliver", pid |-> Pick(t)[1], from |-> trucks[t].current_addr,
                         at |-> trucks[t].clock, dist |-> Pick(t)[2]])]
    /\ pc' = [pc EXCEPT ![t] = "loop"]
    /\ UNCHANGED <<phase, loads, holds, matrix, history, total_miles, table, contents, returned>>

\* A variant that also counts an event at the current clock as future.
next_events_from_now(rem, clock, pkgs) ==
    {pkgs[pid].available_time :
        pid \in {q \in Range(rem) : q \in DOMAIN pkgs /\ pkgs[q].available_time >= clock}}
    \cup
    {pkgs[pid].correction_time :
        pid \in {q \in Range(rem) : q \in DOMAIN pkgs /\ pkgs[q].correction_time # None
                                    /\ pkgs[q].correction_time >= clock}}

\* A variant that looks at availability times only.
next_events_availability_only(rem, clock, pkgs) ==
    {pkgs[pid].available_time :
        pid \in {q \in Range(rem) : q \in DOMAIN pkgs /\ pkgs[q].available_time > clock}}

\* A variant that looks at correction times only.
next_events_corrections_only(rem, clock, pkgs) ==
    {pkgs[pid].correction_time :
        pid \in {q \in Range(rem) : q \in DOMAIN pkgs /\ pkgs[q].correction_time # None
                                    /\ pkgs[q].correction_time > clock}}

\* Lines 147-157: the future availability and correction times of the pending
\* packages.
next_events(rem, clock, pkgs) ==
    {pkgs[pid].available_time :
        pid \in {q \in Range(rem) : q \in DOMAIN pkgs /\ pkgs[q].available_time > clock}}
    \cup
    {pkgs[pid].correction_time :
        pid \in {q \in Range(rem) : q \in DOMAIN pkgs /\ pkgs[q].correction_time # None
                                    /\ pkgs[q].correction_time > clock}}

\* Lines 158-160: nothing is available; the clock jumps to the next event.
advance(rs) ==
    [rs EXCEPT !.truck.clock =
        SetMin(next_events(rs.remaining, rs.truck.clock, rs.packages))]

RouteAdvance(t) ==
    /\ pc[t] = "loop"
    /\ remaining[t] # <<>>
    /\ Pick(t)[1] = None
    /\ next_events(remaining[t], trucks[t].clock, packages) # {}
    /\ trucks' = [trucks EXCEPT ![t] = advance(Call(t)).truck]
    /\ log' = [log EXCEPT ![t] = Append(log[t],
                  [ev |-> "advance", pid |-> None, from |-> trucks[t].current_addr,
                   at |-> trucks[t].clock, dist |-> 0])]
    /\ UNCHANGED <<packages, remaining, pc, phase, loads, holds, matrix, history, total_miles, table, contents, returned>>

\* Lines 161-162: nothing is available and nothing will be; leave the loop.
RouteBreak(t) ==
    /\ pc[t] = "loop"
    /\ remaining[t] # <<>>
    /\ Pick(t)[1] = None
    /\ next_events(remaining[t], trucks[t].clock, packages) = {}
    /\ pc' = [pc EXCEPT ![t] = "return"]
    /\ log' = [log EXCEPT ![t] = Append(log[t],
                  [ev |-> "break", pid |-> None, from |-> trucks[t].current_addr,
                   at |-> trucks[t].clock, dist |-> 0])]
    /\ UNCHANGED <<packages, trucks, remaining, phase, loads, holds, matrix, history, total_miles, table, contents, returned>>

\* A variant of the return leg that moves the truck without counting the leg.
return_to_hub_uncounted(tr) == [tr EXCEPT !.current_addr = HUB_ADDR]

\* Lines 180-185: the return leg.
return_to_hub(tr) ==
    LET back == distance_between_addresses(tr.current_addr, HUB_ADDR)
    IN IF tr.current_addr # HUB_ADDR
       THEN [tr EXCEPT !.miles = tr.miles + back,
                       !.clock = tr.clock + travel_time(back, tr.speed_mph),
                       !.current_addr = HUB_ADDR]
       ELSE tr

\* The return leg, after the loop ended either way.
RouteReturn(t) ==
    /\ \/ pc[t] = "loop" /\ remaining[t] = <<>>
       \/ pc[t] = "return"
    /\ trucks' = [trucks EXCEPT ![t] = return_to_hub(trucks[t])]
    /\ pc' = [pc EXCEPT ![t] = "done"]
    /\ log' = [log EXCEPT ![t] = Append(log[t],
                  [ev |-> "return", pid |-> None, from |-> trucks[t].current_addr,
                   at |-> trucks[t].clock, dist |-> 0])]
    /\ UNCHANGED <<packages, remaining, phase, loads, holds, matrix, history, total_miles, table, contents, returned>>

Route(t) == RouteDeliver(t) \/ RouteAdvance(t) \/ RouteBreak(t) \/ RouteReturn(t)

\* Lines 135-162: one pass of the while loop on the state rs of a call.
iterate(rs) ==
    LET tr == rs.truck
        pick == nearest_next(tr.current_addr, tr.clock, rs.remaining, rs.packages)
    IN IF pick[1] # None THEN deliver(rs)
       ELSE IF next_events(rs.remaining, tr.clock, rs.packages) # {} THEN advance(rs)
       ELSE [rs EXCEPT !.pc = "return"]

\* The while loop run to its end.
RECURSIVE run_loop(_)
run_loop(rs) ==
    IF rs.pc # "loop" \/ rs.remaining = <<>> THEN rs ELSE run_loop(iterate(rs))

\* route_truck as one call: the truck and the store it leaves behind.
route_truck(tr, pkg_ids, pkgs) ==
    LET rs == run_loop(enter(tr, pkg_ids, pkgs))
    IN [truck |-> return_to_hub(rs.truck), packages |-> rs.packages,
        remaining |-> rs.remaining]

----------------------------------------------------------------------------
(* simulator.py: simulate_day *)

Finished(t) == pc[t] \in {"done", "skipped"}

\* Lines 40-45: the hold overrides overwrite start_time and clock.
apply_hold(tr, ts) ==
    IF ts = None THEN tr ELSE [tr EXCEPT !.start_time = ts, !.clock = ts]

ApplyHolds ==
    /\ phase = "init"
    /\ trucks' = [t \in TruckIds |-> apply_hold(trucks[t], holds[t])]
    /\ phase' = "run"
    /\ UNCHANGED <<packages, remaining, pc, loads, holds, matrix, history, total_miles, log, table, contents, returned>>

\* Lines 48-52: trucks 1 and 2, one after the other.
CallRoute(t) ==
    /\ phase = "run"
    /\ t \in {1, 2}
    /\ pc[t] = "new"
    /\ \A u \in TruckIds : u < t => Finished(u)
    /\ loads[t] # <<>>
    /\ RouteEnter(t, trucks[t], loads[t])
    /\ UNCHANGED <<phase, loads, holds, matrix, history, total_miles, log, table, contents, returned>>

\* An empty or absent load: the truck is not routed.
SkipRoute(t) ==
    /\ phase = "run"
    /\ pc[t] = "new"
    /\ \A u \in TruckIds : u < t => Finished(u)
    /\ loads[t] = <<>>
    /\ pc' = [pc EXCEPT ![t] = "skipped"]
    /\ UNCHANGED <<packages, trucks, remaining, phase, loads, holds, matrix, history, total_miles, log, table, contents, returned>>

\* A variant that waits for the later of the two drivers.
driver_free_time_latest(t1, t2) == Max(t1.clock, t2.clock)

\* Line 56
driver_free_time(t1, t2) == Min(t1.clock, t2.clock)

\* A variant in which truck 3 leaves at its own start time.
wait_for_driver_never(t3, free) == t3

\* Lines 57-59: truck 3 waits for the first free driver.
wait_for_driver(t3, free) ==
    IF t3.start_time < free THEN [t3 EXCEPT !.start_time = free, !.clock = free] ELSE t3

\* Lines 55-60
CallRoute3 ==
    /\ phase = "run"
    /\ pc[3] = "new"
    /\ Finished(1) /\ Finished(2)
    /\ loads[3] # <<>>
    /\ RouteEnter(3, wait_for_driver(trucks[3], driver_free_time(trucks[1], trucks[2])),
                  loads[3])
    /\ UNCHANGED <<phase, loads, holds, matrix, history, total_miles, log, table, contents, returned>>

\* Lines 48-52 for one truck: routed when it has a load.
routed(tr, pkg_ids, pkgs) ==
    IF pkg_ids # <<>> THEN route_truck(tr, pkg_ids, pkgs)
    ELSE [truck |-> tr, packages |-> pkgs, remaining |-> <<>>]

\* Truck t of a day as lines 34-45 leave it.
held(t, hld) == apply_hold(Truck(t, DEFAULT_SPEED, DEFAULT_CAPACITY, HUB_START), hld[t])

\* simulate_day as one call, the first two trucks routed first then second:
\* the trucks, the store and the total it returns.
day(pkgs, lds, hld, first, second) ==
    LET ra == routed(held(first, hld), lds[first], pkgs)
        rb == routed(held(second, hld), lds[second], ra.packages)
        r1 == IF first = 1 THEN ra ELSE rb
        r2 == IF first = 1 THEN rb ELSE ra
        t3 == IF lds[3] # <<>>
              THEN wait_for_driver(held(3, hld), driver_free_time(r1.truck, r2.truck))
              ELSE held(3, hld)
        r3 == routed(t3, lds[3], rb.packages)
    IN [trucks |-> [t \in TruckIds |->
                       IF t = 1 THEN r1.truck ELSE IF t = 2 THEN r2.truck ELSE r3.truck],
        packages |-> r3.packages,
        total_miles |-> r1.truck.miles + r2.truck.miles + r3.truck.miles]

simulate_day(pkgs, lds, hld) == day(pkgs, lds, hld, 1, 2)

\* Lines 62-64
Total ==
    /\ phase = "run"
    /\ \A t \in TruckIds : Finished(t)
    /\ total_miles' = trucks[1].miles + trucks[2].miles + trucks[3].miles
    /\ phase' = "returned"
    /\ history' = Append(history, [trucks |-> trucks, packages |-> packages,
                                   total_miles |-> total_miles'])
    /\ UNCHANGED <<packages, trucks, remaining, pc, loads, holds, matrix, log, table, contents, returned>>

----------------------------------------------------------------------------
(* Specifications *)

RECURSIVE SeqsUpTo(_, _)
SeqsUpTo(S, n) ==
    IF n = 0 THEN {<<>>}
    ELSE LET shorter == SeqsUpTo(S, n - 1)
         IN shorter \cup {Append(s, x) : s \in {q \in shorter : Len(q) = n - 1}, x \in S}

\* S in ascending order, as a sequence.
RECURSIVE Ascending(_)
Ascending(S) ==
    IF S = {} THEN <<>>
    ELSE LET m == SetMin(S) IN <<m>> \o Ascending(S \ {m})

\* The IDs a day's load assignment draws from.
DayIds == {1, 3, 4, 5} \cup MissingIds

HoldTimes == {None, T0820}

\* Disjoint loads of at most MaxDayLoad IDs each: who carries what.
DayLoads ==
    {[t \in TruckIds |-> Ascending({p \in DayIds : f[p] = t})] :
        f \in {g \in [DayIds -> 0..3] :
                 \A t \in TruckIds : Cardinality({p \in DayIds : g[p] = t}) <= MaxDayLoad}}

\* A simulated day on a freshly loaded store.
Init ==
    /\ packages = Catalogue
    /\ trucks = [t \in TruckIds |-> Truck(t, DEFAULT_SPEED, DEFAULT_CAPACITY, HUB_START)]
    /\ remaining = [t \in TruckIds |-> <<>>]
    /\ pc = [t \in TruckIds |-> "new"]
    /\ phase = "init"
    /\ loads \in DayLoads
    /\ holds \in [TruckIds -> HoldTimes]
    /\ total_miles = None
    /\ log = [t \in TruckIds |-> <<>>]
    /\ matrix = MatrixLoad(RawRows)
    /\ history = <<>>
    /\ Untouched

Next ==
    \/ ApplyHolds
    \/ \E t \in {1, 2} : CallRoute(t)
    \/ \E t \in TruckIds : SkipRoute(t)
    \/ CallRoute3
    \/ \E t \in TruckIds : Route(t)
    \/ Total

Spec == Init /\ [][Next]_vars

\* Load assignments in which a package is named twice: by two first-wave
\* trucks, by a first-wave truck and truck 3, and twice by one truck.
SharedLoads ==
    { <<<<1>>, <<1>>, <<>>>>,
      <<<<1, 3>>, <<3>>, <<4>>>>,
      <<<<4>>, <<5>>, <<4, 5>>>>,
      <<<<3, 3>>, <<>>, <<1>>>> }

\* The day seen at each write to a package record: the departure stamp and the
\* delivery of a stop are separate steps, and a load assignment may name a
\* package more than once.
InitSteps ==
    /\ packages = Catalogue
    /\ trucks = [t \in TruckIds |-> Truck(t, DEFAULT_SPEED, DEFAULT_CAPACITY, HUB_START)]
    /\ remaining = [t \in TruckIds |-> <<>>]
    /\ pc = [t \in TruckIds |-> "new"]
    /\ phase = "init"
    /\ loads \in DayLoads \cup SharedLoads
    /\ holds \in [TruckIds -> HoldTimes]
    /\ total_miles = None
    /\ log = [t \in TruckIds |-> <<>>]
    /\ matrix = MatrixLoad(RawRows)
    /\ history = <<>>
    /\ Untouched

NextSteps ==
    \/ ApplyHolds
    \/ \E t \in {1, 2} : CallRoute(t)
    \/ \E t \in TruckIds : SkipRoute(t)
    \/ CallRoute3
    \/ \E t \in TruckIds : RouteChoose(t)
    \/ \E t \in TruckIds : RouteArrive(t)
    \/ \E t \in TruckIds : RouteAdvance(t)
    \/ \E t \in TruckIds : RouteBreak(t)
    \/ \E t \in TruckIds : RouteReturn(t)
    \/ Total

SpecSteps == InitSteps /\ [][NextSteps]_vars

\* The day with trucks 1 and 2 routed concurrently: either may start first and
\* their loop iterations interleave.
StartRoute(t) ==
    /\ phase = "run"
    /\ t \in {1, 2}
    /\ pc[t] = "new"
    /\ loads[t] # <<>>
    /\ RouteEnter(t, trucks[t], loads[t])
    /\ UNCHANGED <<phase, loads, holds, matrix, history, total_miles, log, table, contents, returned>>

NextInterleaved ==
    \/ ApplyHolds
    \/ \E t \in {1, 2} : StartRoute(t)
    \/ \E t \in TruckIds : SkipRoute(t)
    \/ CallRoute3
    \/ \E t \in TruckIds : Route(t)
    \/ Total

\* The days of Init in which truck 3, which is not part of the first wave, has
\* no hold of its own.
InitInterleaved == Init /\ holds[3] = None

SpecInterleaved == InitInterleaved /\ [][NextInterleaved]_vars

\* Calls of simulate_day on one store, with a reset before each further call.
MaxRuns == 2

\* main.py resets the store after a simulated day.
Reset ==
    /\ phase = "returned"
    /\ Len(history) < MaxRuns
    /\ packages' = reset_package_statuses(packages)
    /\ phase' = "reset"
    /\ UNCHANGED <<trucks, remaining, pc, loads, holds, matrix, history, total_miles, log, table, contents, returned>>

\* Lines 34-38 of a further call with the same loads and holds: new trucks.
CallAgain ==
    /\ phase = "reset"
    /\ trucks' = [t \in TruckIds |-> Truck(t, DEFAULT_SPEED, DEFAULT_CAPACITY, HUB_START)]
    /\ remaining' = [t \in TruckIds |-> <<>>]
    /\ pc' = [t \in TruckIds |-> "new"]
    /\ total_miles' = None
    /\ log' = [t \in TruckIds |-> <<>>]
    /\ phase' = "init"
    /\ UNCHANGED <<packages, loads, holds, matrix, history, table, contents, returned>>

NextRerun == Next \/ Reset \/ CallAgain

SpecRerun == Init /\ [][NextRerun]_vars

\* route_truck called directly on one truck of any speed, capacity and start.
Speeds == {9, 18}

Capacities == {0, 2, DEFAULT_CAPACITY}

StartTimes == {HUB_START, T0905}

InitRoute ==
    /\ packages = Catalogue
    /\ \E sp \in Speeds, cap \in Capacities, st \in StartTimes :
          trucks = [t \in TruckIds |->
                      IF t = 1 THEN Truck(1, sp, cap, st)
                      ELSE Truck(t, DEFAULT_SPEED, DEFAULT_CAPACITY, HUB_START)]
    /\ remaining = [t \in TruckIds |-> <<>>]
    /\ pc = [t \in TruckIds |-> IF t = 1 THEN "new" ELSE "skipped"]
    /\ phase = "direct"
    /\ loads \in {[t \in TruckIds |-> IF t = 1 THEN ids ELSE <<>>] :
                    ids \in SeqsUpTo(StoreIds \cup MissingIds, MaxLoad)}
    /\ holds = [t \in TruckIds |-> None]
    /\ total_miles = None
    /\ log = [t \in TruckIds |-> <<>>]
    /\ matrix = MatrixLoad(RawRows)
    /\ history = <<>>
    /\ Untouched

CallDirect ==
    /\ phase = "direct"
    /\ pc[1] = "new"
    /\ RouteEnter(1, trucks[1], loads[1])
    /\ UNCHANGED <<phase, loads, holds, matrix, history, total_miles, log, table, contents, returned>>

NextRoute == CallDirect \/ Route(1)

SpecRoute == InitRoute /\ [][NextRoute]_vars

\* DistanceMatrix.load on any square table of three nodes whose cells are
\* empty or hold a distance.
TableNodes == 1..3

Cells == {Blank, 0, 3, 5}

Tables == [TableNodes -> [TableNodes -> Cells]]

\* DistanceMatrix(): no table loaded yet.
InitMatrix ==
    /\ matrix = <<>>
    /\ packages = Catalogue
    /\ trucks = [t \in TruckIds |-> Truck(t, DEFAULT_SPEED, DEFAULT_CAPACITY, HUB_START)]
    /\ remaining = [t \in TruckIds |-> <<>>]
    /\ pc = [t \in TruckIds |-> "new"]
    /\ phase = "boot"
    /\ loads = [t \in TruckIds |-> <<>>]
    /\ holds = [t \in TruckIds |-> None]
    /\ total_miles = None
    /\ log = [t \in TruckIds |-> <<>>]
    /\ history = <<>>
    /\ Untouched

LoadTable ==
    /\ phase = "boot"
    /\ matrix = <<>>
    /\ \E rows \in Tables : matrix' = MatrixLoad(rows)
    /\ UNCHANGED <<packages, trucks, remaining, pc, phase, loads, holds, total_miles, log,
                   history, table, contents, returned>>

SpecMatrix == InitMatrix /\ [][LoadTable]_vars

\* route_truck called with input the caller should not pass: a truck whose
\* speed is zero or negative, or a distance table with a negative entry.
DegenerateSpeeds == {0, 0 - DEFAULT_SPEED}

NegativeRows ==
    << <<0>>,
       <<0 - 3, 0>>,
       <<5, 4, 0>>,
       <<10, 6, 7, 0>>,
       <<9, 12, 14, 15, 0>> >>

InitDegenerate ==
    /\ packages = Catalogue
    /\ \E sp \in DegenerateSpeeds \cup {DEFAULT_SPEED}, st \in StartTimes :
          /\ trucks = [t \in TruckIds |->
                         IF t = 1 THEN Truck(1, sp, DEFAULT_CAPACITY, st)
                         ELSE Truck(t, DEFAULT_SPEED, DEFAULT_CAPACITY, HUB_START)]
          /\ matrix = IF sp \in DegenerateSpeeds THEN MatrixLoad(RawRows)
                      ELSE MatrixLoad(NegativeRows)
    /\ remaining = [t \in TruckIds |-> <<>>]
    /\ pc = [t \in TruckIds |-> IF t = 1 THEN "new" ELSE "skipped"]
    /\ phase = "direct"
    /\ loads \in {[t \in TruckIds |-> IF t = 1 THEN ids ELSE <<>>] :
                    ids \in SeqsUpTo(StoreIds \cup MissingIds, MaxLoad)}
    /\ holds = [t \in TruckIds |-> None]
    /\ total_miles = None
    /\ log = [t \in TruckIds |-> <<>>]
    /\ history = <<>>
    /\ Untouched

SpecDegenerate == InitDegenerate /\ [][NextRoute]_vars

\* route_truck on a store of one package at A whose correction fields and
\* availability vary: no correction, a correction time with or without a
\* corrected street, a corrected street without a time.
CorrectionTimes == {None, T0820, T0830, T0905}

CorrectedStreets == {"", "B", "C"}

AvailableTimes == {0, T0905}

AddressStarts == {HUB_START, T0820, T0830}

AddressLoads == {<<1>>, <<1, 1>>} \cup {<<1, m>> : m \in MissingIds}

InitAddress ==
    /\ \E ct \in CorrectionTimes, cs \in CorrectedStreets, av \in AvailableTimes :
          packages = [pid \in {1} |-> Package("A", None, av, ct, cs)]
    /\ \E st \in AddressStarts :
          trucks = [t \in TruckIds |->
                      IF t = 1 THEN Truck(1, DEFAULT_SPEED, DEFAULT_CAPACITY, st)
                      ELSE Truck(t, DEFAULT_SPEED, DEFAULT_CAPACITY, HUB_START)]
    /\ remaining = [t \in TruckIds |-> <<>>]
    /\ pc = [t \in TruckIds |-> IF t = 1 THEN "new" ELSE "skipped"]
    /\ phase = "direct"
    /\ loads \in {[t \in TruckIds |-> IF t = 1 THEN ids ELSE <<>>] : ids \in AddressLoads}
    /\ holds = [t \in TruckIds |-> None]
    /\ total_miles = None
    /\ log = [t \in TruckIds |-> <<>>]
    /\ matrix = MatrixLoad(RawRows)
    /\ history = <<>>
    /\ Untouched

SpecAddress == InitAddress /\ [][NextRoute]_vars

\* A ChainingHashTable driven by any sequence of insert, remove and search
\* calls.  `contents` is the map the calls describe (key -> last value put
\* and not removed since); `returned` is the last call, what it returned and
\* whether its key was in the map when it was made.
Keys == {1, 2, 3, 5, 9}

Stored == {7, 8}

InitCapacities == {1, 2, 3}

InitHash ==
    /\ packages = Catalogue
    /\ trucks = [t \in TruckIds |-> Truck(t, DEFAULT_SPEED, DEFAULT_CAPACITY, HUB_START)]
    /\ remaining = [t \in TruckIds |-> <<>>]
    /\ pc = [t \in TruckIds |-> "new"]
    /\ phase = "table"
    /\ loads = [t \in TruckIds |-> <<>>]
    /\ holds = [t \in TruckIds |-> None]
    /\ total_miles = None
    /\ log = [t \in TruckIds |-> <<>>]
    /\ matrix = MatrixLoad(RawRows)
    /\ history = <<>>
    /\ \E c \in InitCapacities : table = ChainingHashTable(c)
    /\ contents = <<>>
    /\ returned = [op |-> "new", key |-> None, result |-> None, had |-> FALSE]

HashInsert(k, v) ==
    /\ phase = "table"
    /\ table' = insert(table, k, v)
    /\ contents' = [x \in DOMAIN contents \cup {k} |-> IF x = k THEN v ELSE contents[x]]
    /\ returned' = [op |-> "insert", key |-> k, result |-> None, had |-> k \in DOMAIN contents]
    /\ UNCHANGED <<packages, trucks, remaining, pc, phase, loads, holds, total_miles, log,
                   matrix, history>>

HashRemove(k) ==
    /\ phase = "table"
    /\ table' = remove(table, k).table
    /\ contents' = [x \in DOMAIN contents \ {k} |-> contents[x]]
    /\ returned' = [op |-> "remove", key |-> k, result |-> remove(table, k).result,
                    had |-> k \in DOMAIN contents]
    /\ UNCHANGED <<packages, trucks, remaining, pc, phase, loads, holds, total_miles, log,
                   matrix, history>>

HashSearch(k) ==
    /\ phase = "table"
    /\ returned' = [op |-> "search", key |-> k, result |-> search(table, k),
                    had |-> k \in DOMAIN contents]
    /\ UNCHANGED <<packages, trucks, remaining, pc, phase, loads, holds, total_miles, log,
                   matrix, history, table, contents>>

NextHash ==
    \/ \E k \in Keys, v \in Stored : HashInsert(k, v)
    \/ \E k \in Keys : HashRemove(k)
    \/ \E k \in Keys : HashSearch(k)

SpecHash == InitHash /\ [][NextHash]_vars

----------------------------------------------------------------------------
(* Properties *)

Routed(t) == pc[t] \in {"loop", "return", "done"}

Events(t, kind) == {i \in 1..Len(log[t]) : log[t][i].ev = kind}

\* The hold override of truck t, or the day start when it has none.
HoldOrDayStart(t) == IF holds[t] = None THEN HUB_START ELSE holds[t]

\* C1: within one route_truck call the truck clock starts at start_time (which
\* is at or after the truck's hold override) and no iteration, starvation
\* jump or return leg decreases it, so every departure_time and delivery_time
\* the call stamps is at or after start_time.
C1_ClockMonotone ==
    [][\A t \in TruckIds :
          /\ (pc[t] = "new" /\ pc'[t] = "loop") =>
                /\ trucks'[t].clock = trucks'[t].start_time
                /\ holds[t] # None => trucks'[t].start_time >= holds[t]
          /\ log'[t] # log[t] =>
                /\ trucks[t].clock >= trucks[t].start_time
                /\ trucks'[t].clock >= trucks[t].clock
                /\ trucks'[t].start_time = trucks[t].start_time
                /\ \A pid \in DOMAIN packages :
                      /\ packages'[pid].departure_time # packages[pid].departure_time
                            => packages'[pid].departure_time >= trucks[t].start_time
                      /\ packages'[pid].delivery_time # packages[pid].delivery_time
                            => packages'[pid].delivery_time >= trucks[t].start_time
      ]_vars

\* A held truck has jumped to a later event, delivered and driven back.
C1_Witness ==
    \E t \in TruckIds :
        /\ pc[t] = "done"
        /\ holds[t] # None
        /\ Events(t, "advance") # {}
        /\ Events(t, "deliver") # {}
        /\ trucks[t].clock > trucks[t].start_time
        /\ \E pid \in DOMAIN packages :
              packages[pid].truck_id = t /\ packages[pid].delivery_time > holds[t]

\* C2: every delivered package left at or after its available_time, and
\* _nearest_next never returns a package that is not yet available at the
\* truck clock.
C2_AvailabilityRespected ==
    /\ \A pid \in DOMAIN packages :
          packages[pid].status = "Delivered" =>
              /\ packages[pid].departure_time # None
              /\ packages[pid].departure_time >= packages[pid].available_time
    /\ \A t \in TruckIds :
          (pc[t] = "loop" /\ Pick(t)[1] # None) =>
              /\ InStore(Pick(t)[1])
              /\ packages[Pick(t)[1]].available_time <= trucks[t].clock

\* A truck that left at 8:00 delivered another package first and then the
\* package that only becomes available at 9:05.
C2_Witness ==
    /\ pc[1] = "done"
    /\ trucks[1].start_time = HUB_START
    /\ packages[5].status = "Delivered"
    /\ packages[5].departure_time = T0905
    /\ \E pid \in DOMAIN packages :
          /\ packages[pid].status = "Delivered"
          /\ packages[pid].delivery_time < T0905

\* The clock at which truck t is done for the day: its finish clock when it
\* was routed, its start time when it was not.
FinishClock(t) == IF pc[t] = "done" THEN trucks[t].clock ELSE HoldOrDayStart(t)

\* C3: when truck 3 has a load, the clock at which it starts routing is
\* max(its hold override or 8:00, min(finish clock of truck 1, finish clock of
\* truck 2)), a truck that was not routed finishing at its start time.
C3_Truck3Start ==
    (pc[3] = "loop" /\ log[3] = <<>>) =>
        /\ trucks[3].clock = Max(HoldOrDayStart(3), Min(FinishClock(1), FinishClock(2)))
        /\ trucks[3].start_time = trucks[3].clock
        /\ trucks[3].clock >= Min(FinishClock(1), FinishClock(2))
        /\ holds[3] # None => trucks[3].clock >= holds[3]

\* Truck 3 is about to route after trucks 1 and 2 came back at different
\* times, both later than truck 3's own hold.
C3_Witness ==
    /\ pc[3] = "loop" /\ log[3] = <<>>
    /\ pc[1] = "done" /\ pc[2] = "done"
    /\ trucks[1].clock # trucks[2].clock
    /\ holds[3] # None
    /\ trucks[3].clock > holds[3]

Max3(a, b, c) == Max(a, Max(b, c))

Min3(a, b, c) == Min(a, Min(b, c))

\* C4: the intervals [start clock, finish clock) of the three trucks never
\* share a point: no simulated time has all three trucks out.
C4_TwoDrivers ==
    (\A t \in TruckIds : Routed(t)) =>
        ~(Max3(trucks[1].start_time, trucks[2].start_time, trucks[3].start_time)
            < Min3(trucks[1].clock, trucks[2].clock, trucks[3].clock))

\* All three trucks went out and came back, trucks 1 and 2 out at the same
\* time, truck 3 out while one of them was still out.
C4_Witness ==
    /\ \A t \in TruckIds : pc[t] = "done" /\ trucks[t].clock > trucks[t].start_time
    /\ Max(trucks[1].start_time, trucks[2].start_time)
          < Min(trucks[1].clock, trucks[2].clock)
    /\ trucks[3].start_time < Max(trucks[1].clock, trucks[2].clock)

Addresses == {"HUB", "A", "B", "C", "D"}

\* The pending packages of rem that the store holds and that are available.
Available(rem, clock) ==
    {p \in Range(rem) : InStore(p) /\ packages[p].available_time <= clock}

DistTo(a, p, clock) ==
    distance_between_addresses(a, address_at_time(packages[p], clock))

\* The arrival the selection projects for p: the clock plus the drive at the
\* router's 18 mph.
Arrival(a, p, clock) == clock + (DistTo(a, p, clock) * 3600) \div SELECT_MPH

OnTime(a, p, clock) ==
    packages[p].deadline_time = None \/ Arrival(a, p, clock) <= packages[p].deadline_time

Urgent(a, p, clock) ==
    /\ packages[p].deadline_time # None
    /\ Arrival(a, p, clock) <= packages[p].deadline_time
    /\ packages[p].deadline_time - Arrival(a, p, clock) <= URGENCY

\* r is a nearest member of S, with its distance.
NearestIn(S, r, a, clock) ==
    /\ r[1] \in S
    /\ r[2] = DistTo(a, r[1], clock)
    /\ \A q \in S : r[2] <= DistTo(a, q, clock)

TiersRespected(a, clock, rem) ==
    LET r == nearest_next(a, clock, rem, packages)
        cands == Available(rem, clock)
        urgent == {p \in cands : Urgent(a, p, clock)}
        ontime == {p \in cands : OnTime(a, p, clock)}
    IN /\ urgent # {} => NearestIn(urgent, r, a, clock)
       /\ (urgent = {} /\ ontime # {}) => NearestIn(ontime, r, a, clock)
       /\ (ontime = {} /\ cands # {}) => NearestIn(cands, r, a, clock)
       /\ (r[1] = None) <=> (cands = {})

\* C5: from any location, at the clocks and pending lists a route reaches,
\* _nearest_next returns the nearest urgent candidate if there is one, else
\* the nearest on-time candidate if there is one, else the nearest available
\* candidate, and no package exactly when no pending package of the store is
\* available.
C5_ThreeTiers ==
    \A t \in TruckIds :
        pc[t] = "loop" =>
            \A a \in Addresses :
                /\ TiersRespected(a, trucks[t].clock, remaining[t])
                /\ TiersRespected(a, trucks[t].clock, loads[t])

\* The urgent tier overrides distance: the pick is urgent although a nearer
\* on-time candidate is pending.
C5_Witness ==
    /\ pc[1] = "loop"
    /\ Pick(1)[1] # None
    /\ Urgent(trucks[1].current_addr, Pick(1)[1], trucks[1].clock)
    /\ \E q \in Available(remaining[1], trucks[1].clock) :
          /\ OnTime(trucks[1].current_addr, q, trucks[1].clock)
          /\ DistTo(trucks[1].current_addr, q, trucks[1].clock) < Pick(1)[2]

\* The packages of truck t's load that the store holds.
Deliverable(t) == {p \in Range(trucks[t].load) : InStore(p)}

\* Every order in which the packages of S can be delivered.
Orders(S) ==
    {o \in [1..Cardinality(S) -> S] : \A i, j \in 1..Cardinality(S) : o[i] = o[j] => i = j}

\* The arrival at target's door when the stops are made in the given order
\* from place at clock, waiting at a stop's departure for its availability.
RECURSIVE ArrivalInOrder(_, _, _, _, _, _)
ArrivalInOrder(order, i, place, clock, mph, target) ==
    LET pkg == packages[order[i]]
        depart == Max(clock, pkg.available_time)
        addr == address_at_time(pkg, depart)
        arrive == depart + travel_time(distance_between_addresses(place, addr), mph)
    IN IF order[i] = target THEN arrive
       ELSE ArrivalInOrder(order, i + 1, addr, arrive, mph, target)

OrderArrival(t, order, target) ==
    ArrivalInOrder(order, 1, HUB_ADDR, trucks[t].start_time, trucks[t].speed_mph, target)

\* C6: a package with a deadline that would be late if delivered last, while
\* some order of the same load delivers it in time, is delivered by its
\* deadline.  Stated for trucks driving at the 18 mph the selection assumes.
C6_FeasibleDeadlineMet ==
    \A t \in TruckIds :
        (pc[t] = "done" /\ trucks[t].speed_mph = SELECT_MPH) =>
            \A p \in Deliverable(t) :
                LET dl == packages[p].deadline_time
                    all == Orders(Deliverable(t))
                    last == {o \in all : o[Len(o)] = p}
                IN (/\ dl # None
                    /\ \A o \in last : OrderArrival(t, o, p) > dl
                    /\ \E o \in all : OrderArrival(t, o, p) <= dl)
                   => /\ packages[p].delivery_time # None
                      /\ packages[p].delivery_time <= dl

\* C7: a candidate is classified as missing its deadline exactly when the
\* truck clock plus distance / truck.speed_mph is later than the deadline, and
\* a package without a deadline is never classified as missing.
C7_MissUsesTruckSpeed ==
    \A t \in TruckIds :
        pc[t] = "loop" =>
            \A p \in Available(remaining[t], trucks[t].clock) :
                misses(packages[p], trucks[t].current_addr, trucks[t].clock)
                <=> (/\ packages[p].deadline_time # None
                     /\ trucks[t].clock
                          + travel_time(DistTo(trucks[t].current_addr, p, trucks[t].clock),
                                        trucks[t].speed_mph)
                        > packages[p].deadline_time)

\* C8: truck.load is the first truck.capacity entries of pkg_ids, and a
\* package named only beyond that prefix keeps its status, stamps and
\* truck_id and is never delivered by the truck.
C8_CapacityPrefix ==
    \A t \in TruckIds :
        Routed(t) =>
            LET load == trucks[t].load
                cap == trucks[t].capacity
            IN /\ Len(load) <= cap
               /\ Len(load) = Min(cap, Len(loads[t]))
               /\ \A i \in 1..Len(load) : load[i] = loads[t][i]
               /\ \A i \in 1..Len(loads[t]) :
                     LET pid == loads[t][i]
                     IN (InStore(pid) /\ \A j \in 1..Len(loads[t]) : loads[t][j] = pid => j > cap)
                        => /\ packages[pid] = Catalogue[pid]
                           /\ \A k \in Events(t, "deliver") : log[t][k].pid # pid

\* A list longer than the capacity was routed: the prefix was delivered and
\* the package beyond it is still at the hub.
C8_Witness ==
    /\ pc[1] = "done"
    /\ Len(loads[1]) > trucks[1].capacity
    /\ Len(trucks[1].load) = trucks[1].capacity
    /\ \A i \in 1..Len(trucks[1].load) :
          InStore(loads[1][i]) /\ packages[loads[1][i]].status = "Delivered"
    /\ LET pid == loads[1][Len(loads[1])]
       IN /\ InStore(pid)
          /\ pid \notin Range(trucks[1].load)
          /\ packages[pid].status = "At the hub"

\* How often x occurs in s.
Count(s, x) == Cardinality({i \in 1..Len(s) : s[i] = x})

\* The availability and correction times of t's pending packages.
PendingTimes(t) ==
    UNION {{packages[p].available_time, packages[p].correction_time} \ {None} :
              p \in {q \in Range(remaining[t]) : InStore(q)}}

FutureTimes(t) == {x \in PendingTimes(t) : x > trucks[t].clock}

NothingAvailable(t) == Available(remaining[t], trucks[t].clock) = {}

\* One iteration delivered exactly one pending package.
DeliveredOne(t) ==
    \E pid \in Range(remaining[t]) :
        /\ \A q \in Range(remaining[t]) :
              Count(remaining'[t], q) = Count(remaining[t], q) - (IF q = pid THEN 1 ELSE 0)
        /\ Len(remaining'[t]) = Len(remaining[t]) - 1
        /\ packages'[pid].status = "Delivered"
        /\ packages'[pid].delivery_time = trucks'[t].clock

\* One iteration moved the clock to a strictly later pending event.
JumpedAhead(t) ==
    /\ remaining'[t] = remaining[t]
    /\ trucks'[t].clock > trucks[t].clock
    /\ trucks'[t].clock \in PendingTimes(t)

\* What is left to do in truck t's loop: the pending entries plus the pending
\* times still ahead of the clock.
Measure(t) == Len(remaining[t]) + Cardinality(FutureTimes(t))

\* C9: route_truck terminates for every load, with packages that only become
\* available later and with IDs the store does not hold: each loop iteration
\* delivers one pending package or moves the clock to a strictly later pending
\* availability or correction time, and the loop exits when neither is
\* possible.  Every iteration that stays in the loop lowers Measure, which is
\* never negative, and the step after the loop is the return.
C9_Terminates ==
    [][\A t \in TruckIds :
          /\ (pc[t] = "loop" /\ remaining[t] # <<>>) =>
                /\ DeliveredOne(t) \/ JumpedAhead(t) \/ pc'[t] = "return"
                /\ (pc'[t] = "return") <=> (NothingAvailable(t) /\ FutureTimes(t) = {})
                /\ pc'[t] \in {"loop", "return"}
                /\ pc'[t] = "loop" => (Measure(t)' < Measure(t) /\ Measure(t)' >= 0)
          /\ (pc[t] = "return" \/ (pc[t] = "loop" /\ remaining[t] = <<>>)) =>
                pc'[t] = "done"
      ]_vars

\* A route waited for a delayed package, delivered it and then gave up on an
\* ID the store does not hold.
C9_Witness ==
    /\ pc[1] = "done"
    /\ Events(1, "advance") # {}
    /\ Events(1, "deliver") # {}
    /\ Events(1, "break") # {}
    /\ \E pid \in MissingIds : pid \in Range(remaining[1])

\* C10: when nothing pending is available, the iteration sets the clock to the
\* earliest pending availability or correction time after the clock and leaves
\* miles, location, the pending list and every package record alone; a lone
\* pending package available at A later (no correction before A) is waited for
\* until exactly A, and a package chosen with no departure stamp departs at
\* the clock of its choice.
C10_StarvationJump ==
    [][\A t \in TruckIds :
          /\ (pc[t] = "loop" /\ remaining[t] # <<>> /\ NothingAvailable(t)
                /\ FutureTimes(t) # {}) =>
                /\ trucks'[t].clock = SetMin(FutureTimes(t))
                /\ trucks'[t].miles = trucks[t].miles
                /\ trucks'[t].current_addr = trucks[t].current_addr
                /\ packages' = packages
                /\ remaining' = remaining
                /\ \A p \in DOMAIN packages :
                      (/\ Range(remaining[t]) = {p}
                       /\ ~(/\ packages[p].correction_time > trucks[t].clock
                            /\ packages[p].correction_time < packages[p].available_time))
                      => trucks'[t].clock = packages[p].available_time
          /\ (pc[t] = "loop" /\ ~NothingAvailable(t)) =>
                \E p \in Available(remaining[t], trucks[t].clock) :
                    /\ packages'[p].status = "Delivered"
                    /\ packages[p].departure_time = None
                          => packages'[p].departure_time = trucks[t].clock
      ]_vars

\* The jump to 9:05 was made for package 5 alone, which then left at 9:05.
C10_Witness ==
    /\ pc[1] = "done"
    /\ trucks[1].miles > 0
    /\ packages[5].departure_time = T0905
    /\ \E i \in 1..(Len(log[1]) - 1) :
          /\ log[1][i].ev = "advance"
          /\ log[1][i].at < T0905
          /\ Range(trucks[1].load) = {5}
          /\ log[1][i + 1].ev = "deliver"
          /\ log[1][i + 1].pid = 5
          /\ log[1][i + 1].at = T0905

\* The input of truck t's call breaks a precondition of the router.
Degenerate(t) ==
    \/ trucks[t].speed_mph <= 0
    \/ \E i, j \in DOMAIN matrix : matrix[i][j] < 0

\* C11: a call with a speed of zero or less, or with a negative distance, is
\* rejected: it delivers no package and accrues no mileage.
C11_DegenerateRejected ==
    \A t \in TruckIds :
        (Routed(t) /\ Degenerate(t)) =>
            /\ trucks[t].miles = 0
            /\ \A p \in DOMAIN packages :
                  packages[p].truck_id = t => packages[p].status # "Delivered"

\* The truck of call t as the caller handed it in.
Fresh(t) ==
    Truck(trucks[t].id, trucks[t].speed_mph, trucks[t].capacity, trucks[t].start_time)

\* The list s without the IDs the store does not hold.
Strip(s) == SelectSeq(s, InStore)

\* C12: a load with IDs the store does not hold is routed to the end, the
\* IDs without a record are left pending, and every package record, the truck's
\* miles, finish clock and place are those of a call on the same store with
\* the load stripped of these IDs.
C12_MissingIdsSkipped ==
    \A t \in TruckIds :
        pc[t] = "done" =>
            LET r == route_truck(Fresh(t), Strip(trucks[t].load), Catalogue)
            IN /\ r.packages = packages
               /\ r.truck.miles = trucks[t].miles
               /\ r.truck.clock = trucks[t].clock
               /\ r.truck.current_addr = trucks[t].current_addr
               /\ r.remaining = <<>>
               /\ remaining[t] = SelectSeq(trucks[t].load, LAMBDA x : ~InStore(x))

\* A load that names a missing ID ahead of two packages was routed: both were
\* delivered, the later one after a wait, and the loop then gave up on the ID.
C12_Witness ==
    /\ pc[1] = "done"
    /\ Len(trucks[1].load) = 3
    /\ trucks[1].load[1] \in MissingIds
    /\ \A i \in 2..Len(trucks[1].load) :
          InStore(trucks[1].load[i]) /\ packages[trucks[1].load[i]].status = "Delivered"
    /\ Events(1, "advance") # {}
    /\ Events(1, "break") # {}
    /\ trucks[1].miles > 0

\* Package p has no deadline, no correction and is available when truck t starts.
Plain(t, p) ==
    /\ packages[p].deadline_time = None
    /\ packages[p].correction_time = None
    /\ packages[p].available_time <= trucks[t].start_time

PlainLoad(t) == \A p \in Deliverable(t) : Plain(t, p)

\* The pending packages of truck t that the store holds.
Pending(t) == {p \in Range(remaining[t]) : InStore(p)}

\* C13: with a load of packages that have no deadline, no correction and are
\* available at the start, every iteration drives to a pending destination
\* nearest to the truck's place, adding that distance and its travel time, and
\* the call ends at the hub; packages at A, B and C on an 18 mph truck starting
\* at 8:00 are delivered in the order A, B, C (8:10, 8:23:20, 8:46:40), with 24
\* miles and a finish clock of 9:20.
C13_NearestNeighbour ==
    [][\A t \in TruckIds :
          /\ (pc[t] = "loop" /\ PlainLoad(t) /\ Pending(t) # {}) =>
                \E p \in Pending(t) :
                    LET d == distance_between_addresses(trucks[t].current_addr,
                                                        packages[p].street)
                    IN /\ \A q \in Pending(t) :
                             d <= distance_between_addresses(trucks[t].current_addr,
                                                             packages[q].street)
                       /\ trucks'[t].current_addr = packages[p].street
                       /\ trucks'[t].miles = trucks[t].miles + d
                       /\ trucks'[t].clock * trucks[t].speed_mph
                             = trucks[t].clock * trucks[t].speed_mph + d * 3600
                       /\ packages'[p].delivery_time = trucks'[t].clock
          /\ (pc[t] # "done" /\ pc'[t] = "done" /\ PlainLoad(t)) =>
                /\ trucks'[t].current_addr = HUB_ADDR
                /\ \A p \in Deliverable(t) : packages[p].status = "Delivered"
                /\ (/\ Range(trucks[t].load) = {1, 2, 3}
                    /\ Len(trucks[t].load) = 3
                    /\ trucks[t].speed_mph = 18
                    /\ trucks[t].start_time = HM(8, 0)) =>
                      /\ packages[1].delivery_time = HM(8, 10)
                      /\ packages[2].delivery_time = HM(8, 23) + 20
                      /\ packages[3].delivery_time = HM(8, 46) + 40
                      /\ trucks'[t].miles = 24
                      /\ trucks'[t].clock = HM(9, 20)
      ]_vars

\* The scenario's load, listed farthest first, was routed A, B, C and back.
C13_Witness ==
    /\ pc[1] = "done"
    /\ trucks[1].load = <<3, 1, 2>>
    /\ trucks[1].speed_mph = 18
    /\ trucks[1].start_time = HM(8, 0)
    /\ trucks[1].miles = 24
    /\ trucks[1].clock = HM(9, 20)
    /\ log[1][1].pid = 1 /\ log[1][2].pid = 2 /\ log[1][3].pid = 3

\* C14: the step that ends a call leaves the truck at the hub; from another
\* place it adds the distance to the hub and the travel time at the truck's
\* speed, from the hub it changes neither miles nor clock; and it is the same
\* step after a loop that delivered everything and after one that broke off.
C14_ReturnLeg ==
    [][\A t \in TruckIds :
          /\ (pc[t] # "done" /\ pc'[t] = "done") =>
                LET was == trucks[t].current_addr
                    back == distance_between_addresses(was, HUB_ADDR)
                IN /\ trucks'[t].current_addr = HUB_ADDR
                   /\ was # HUB_ADDR =>
                         /\ trucks'[t].miles = trucks[t].miles + back
                         /\ trucks'[t].clock * trucks[t].speed_mph
                               = trucks[t].clock * trucks[t].speed_mph + back * 3600
                         /\ back > 0
                   /\ was = HUB_ADDR =>
                         /\ trucks'[t].miles = trucks[t].miles
                         /\ trucks'[t].clock = trucks[t].clock
                   /\ packages' = packages
          /\ pc[t] = "done" => (pc'[t] = "done" /\ trucks'[t] = trucks[t])
      ]_vars

\* A call that delivered and then broke off on a missing ID drove back from
\* its last stop.
C14_Witness ==
    /\ pc[1] = "done"
    /\ trucks[1].current_addr = HUB_ADDR
    /\ Events(1, "break") # {}
    /\ Events(1, "deliver") # {}
    /\ \E i \in Events(1, "return") :
          /\ log[1][i].from # HUB_ADDR
          /\ trucks[1].clock > log[1][i].at

\* The clocks a query is made at: around every correction time, and early.
Queries ==
    {0, HUB_START} \cup {ct + k : ct \in CorrectionTimes \ {None}, k \in {0 - 1, 0, 1}}

\* Both correction fields of pkg are set.
Corrected(pkg) == pkg.correction_time # None /\ pkg.corrected_street # ""

\* address_at_time and the router's address agree with the switch at q.
SwitchAt(pkg, q) ==
    /\ (Corrected(pkg) /\ q >= pkg.correction_time) =>
          /\ address_at_time(pkg, q) = pkg.corrected_street
          /\ candidate_addr(pkg, q) = pkg.corrected_street
    /\ (Corrected(pkg) /\ q < pkg.correction_time) =>
          /\ address_at_time(pkg, q) = pkg.street
          /\ candidate_addr(pkg, q) = pkg.street
    /\ ~Corrected(pkg) =>
          /\ address_at_time(pkg, q) = pkg.street
          /\ candidate_addr(pkg, q) = pkg.street

\* The street the claim gives package p at clock q.
Effective(p, q) ==
    IF Corrected(packages[p]) /\ q >= packages[p].correction_time
    THEN packages[p].corrected_street
    ELSE packages[p].street

\* C15: with both correction fields set the effective address is the corrected
\* street from the correction time on and the original street before it;
\* without both it is the original street: for address_at_time at every query
\* clock, for the distance _nearest_next returns at the truck clock, and for
\* the distance every delivery drove.
C15_AddressSwitch ==
    /\ \A p \in DOMAIN packages :
          \A q \in Queries \cup {trucks[t].clock : t \in TruckIds} :
              SwitchAt(packages[p], q)
    /\ \A t \in TruckIds :
          /\ (pc[t] = "loop" /\ Pick(t)[1] # None) =>
                Pick(t)[2] = distance_between_addresses(
                                 trucks[t].current_addr,
                                 Effective(Pick(t)[1], trucks[t].clock))
          /\ \A i \in Events(t, "deliver") :
                log[t][i].dist = distance_between_addresses(
                                     log[t][i].from, Effective(log[t][i].pid, log[t][i].at))

\* The truck chose the package at the very second of its correction and
\* drove to the corrected street.
C15_Witness ==
    /\ pc[1] = "done"
    /\ Corrected(packages[1])
    /\ \E i \in Events(1, "deliver") :
          /\ log[1][i].at = packages[1].correction_time
          /\ log[1][i].dist = distance_between_addresses(HUB_ADDR, packages[1].corrected_street)
          /\ log[1][i].dist # distance_between_addresses(HUB_ADDR, packages[1].street)

\* C16: after reset_package_statuses every package is 'At the hub' with
\* departure_time, delivery_time and truck_id unset and its other fields as
\* loaded; and every further simulate_day on the reset store, with the same
\* loads and holds, ends with the total_miles, the trucks (miles, clocks) and
\* the package records of the first.
C16_ResetIdempotent ==
    /\ phase = "reset" =>
          /\ \A p \in DOMAIN packages :
                /\ packages[p].status = "At the hub"
                /\ packages[p].departure_time = None
                /\ packages[p].delivery_time = None
                /\ packages[p].truck_id = None
          /\ packages = Catalogue
    /\ \A i \in 1..Len(history) :
          /\ history[i].total_miles = history[1].total_miles
          /\ history[i].trucks = history[1].trucks
          /\ history[i].packages = history[1].packages

\* A second day was simulated after a reset; all three trucks drove, one
\* waited for a delayed package, and deliveries were stamped in both days.
C16_Witness ==
    /\ phase = "returned"
    /\ Len(history) = 2
    /\ history[2].total_miles > 0
    /\ \A t \in TruckIds : history[1].trucks[t].miles > 0
    /\ \E t \in TruckIds : Events(t, "advance") # {}
    /\ \E p \in DOMAIN packages :
          /\ history[1].packages[p].status = "Delivered"
          /\ packages[p].status = "Delivered"
          /\ packages[p].delivery_time = history[1].packages[p].delivery_time

\* C17: the loaded table is symmetric with a zero diagonal.
C17_Symmetric ==
    \A i, j \in DOMAIN matrix :
        /\ Get(i, j) = Get(j, i)
        /\ Get(i, i) = 0

\* C18: from the setup of a call to its return, every package of the truck's
\* load that the store holds carries the truck's id, delivered or not, and a
\* package outside the load does not.
C18_TruckIdAssigned ==
    \A t \in TruckIds :
        Routed(t) =>
            /\ \A p \in Deliverable(t) : packages[p].truck_id = trucks[t].id
            /\ \A p \in DOMAIN packages :
                  packages[p].truck_id = trucks[t].id => p \in Range(trucks[t].load)

\* A returned call whose load held a package that was not available at the
\* start, next to one that was, and left a listed package behind.
C18_Witness ==
    /\ pc[1] = "done"
    /\ trucks[1].start_time < T0905
    /\ 5 \in Range(trucks[1].load)
    /\ Cardinality(Deliverable(1)) = 2
    /\ \A p \in Deliverable(1) : packages[p].truck_id = 1
    /\ \E i \in 1..Len(loads[1]) : loads[1][i] \notin Range(trucks[1].load)

\* C19: once a call is set up, every loaded package that was available at the
\* truck's start_time is 'En route' (or, later, 'Delivered') with
\* departure_time equal to start_time; a package that was not available then is
\* stamped only when chosen, at or after its available_time.
C19_AvailableMarkedAtDeparture ==
    \A t \in TruckIds :
        Routed(t) =>
            \A p \in Deliverable(t) :
                /\ packages[p].available_time <= trucks[t].start_time =>
                      /\ packages[p].status \in {"En route", "Delivered"}
                      /\ packages[p].departure_time = trucks[t].start_time
                /\ packages[p].available_time > trucks[t].start_time =>
                      \/ packages[p].departure_time = None
                      \/ packages[p].departure_time >= packages[p].available_time

\* The loads of trucks 1 and 2 name no ID twice, within or across them.
DisjointLoads ==
    /\ Range(loads[1]) \cap Range(loads[2]) = {}
    /\ \A t \in {1, 2} : Cardinality(Range(loads[t])) = Len(loads[t])

\* Truck t routed alone on the freshly loaded store.
Alone(t) == routed(held(t, holds), loads[t], Catalogue)

\* C20: with disjoint loads, however the iterations of trucks 1 and 2 are
\* interleaved, a step of one truck writes no package outside its load (a
\* package in no started truck's load is as loaded); a finished truck and the
\* packages of its load are as if it had been routed alone on the fresh store;
\* and the day ends with the trucks, package records and total of the day
\* routed 1 then 2, which are those of the day routed 2 then 1.
C20_FirstWaveIndependent ==
    DisjointLoads =>
        /\ \A p \in DOMAIN packages :
              (\A t \in TruckIds : Routed(t) => p \notin Range(loads[t])) =>
                  packages[p] = Catalogue[p]
        /\ \A t \in {1, 2} :
              (pc[t] = "done" /\ phase = "run") =>
                  /\ trucks[t] = Alone(t).truck
                  /\ \A p \in Range(loads[t]) \cap DOMAIN packages :
                        packages[p] = Alone(t).packages[p]
        /\ phase = "returned" =>
              LET d12 == day(Catalogue, loads, holds, 1, 2)
                  d21 == day(Catalogue, loads, holds, 2, 1)
              IN /\ trucks = d12.trucks /\ trucks = d21.trucks
                 /\ packages = d12.packages /\ packages = d21.packages
                 /\ total_miles = d12.total_miles

\* Truck 2 has returned from a route with deliveries while truck 1, which has
\* already made a stop, still has a package pending.
C20_Witness ==
    /\ DisjointLoads
    /\ pc[2] = "done" /\ trucks[2].miles > 0
    /\ pc[1] = "loop" /\ Events(1, "deliver") # {} /\ remaining[1] # <<>>
    /\ \E p \in Range(loads[2]) \cap DOMAIN packages : packages[p].status = "Delivered"

\* C21: when a call has returned, every package of the truck's load that the
\* store holds is 'Delivered' with a delivery_time, whatever its available_time,
\* deadline and correction_time; what is left pending has no record.
C21_AllStoredDelivered ==
    \A t \in TruckIds :
        pc[t] = "done" =>
            /\ \A p \in Deliverable(t) :
                  /\ packages[p].status = "Delivered"
                  /\ packages[p].delivery_time # None
                  /\ \E i \in Events(t, "deliver") : log[t][i].pid = p
            /\ \A p \in Range(remaining[t]) : ~InStore(p)

\* A truck that left at 8:00 has returned: it delivered the package with the
\* 9:00 deadline, waited for the package delayed to 9:05 and delivered it, and
\* left the unknown ID pending.
C21_Witness ==
    /\ pc[1] = "done"
    /\ trucks[1].start_time = HUB_START
    /\ Deliverable(1) = {4, 5}
    /\ packages[4].status = "Delivered"
    /\ packages[5].status = "Delivered"
    /\ packages[5].delivery_time > T0905
    /\ Events(1, "advance") # {}
    /\ Range(remaining[1]) = MissingIds

\* C22: every step adds to truck.miles the distance between the truck's place
\* before and after it, so the miles of a returned truck are those of the path
\* hub, stop 1, ..., stop n, hub.
C22_MilesFollowPath ==
    [][\A t \in TruckIds :
          trucks'[t].miles
            = trucks[t].miles
              + distance_between_addresses(trucks[t].current_addr, trucks'[t].current_addr)
      ]_vars

\* The place of a status in the life of a package.
Rank(status) ==
    CASE status = "At the hub" -> 0
      [] status = "En route" -> 1
      [] status = "Delivered" -> 2

\* The timestamps a package record carries agree with its status.
Lifecycle(pkg) ==
    /\ pkg.status \in {"At the hub", "En route", "Delivered"}
    /\ pkg.status = "At the hub" =>
          pkg.departure_time = None /\ pkg.delivery_time = None
    /\ pkg.status = "En route" =>
          pkg.departure_time # None /\ pkg.delivery_time = None
    /\ pkg.status = "Delivered" =>
          /\ pkg.departure_time # None
          /\ pkg.delivery_time # None
          /\ pkg.departure_time <= pkg.delivery_time

\* No step takes the status of package p backwards.
StatusForward(p) == Rank(packages'[p].status) >= Rank(packages[p].status)

\* The load assignment names every package at most once, within a truck's
\* load and across the trucks.
EachLoadedOnce ==
    /\ \A t \in TruckIds : Cardinality(Range(loads[t])) = Len(loads[t])
    /\ \A t, u \in TruckIds : t # u => Range(loads[t]) \cap Range(loads[u]) = {}

Pairs(tb) == {items(tb)[i] : i \in 1..Len(items(tb))}

\* The pairs of the map the calls so far describe.
Described == {<<k, contents[k]>> : k \in DOMAIN contents}

\* C24: after any sequence of insert and remove calls, resizes included, the
\* table behaves as a map: search(k) is the value last inserted for k if k was
\* not removed since and None otherwise; len() is the number of distinct keys
\* present; remove(k) returns True exactly when k was present; and a resize
\* changes neither the set of pairs nor len().
C24_BehavesAsMap ==
    /\ \A k \in Keys :
          search(table, k) = IF k \in DOMAIN contents THEN contents[k] ELSE None
    /\ \A k \in Keys : contains(table, k) <=> k \in DOMAIN contents
    /\ len(table) = Cardinality(DOMAIN contents)
    /\ Pairs(table) = Described
    /\ Len(items(table)) = len(table)
    /\ returned.op = "remove" => returned.result = returned.had
    /\ returned.op = "search" =>
          returned.result = IF returned.had THEN contents[returned.key] ELSE None
    /\ LET grown == resize(table, table_capacity(table) * 2)
       IN /\ Pairs(grown) = Pairs(table)
          /\ len(grown) = len(table)
          /\ table_capacity(grown) = table_capacity(table) * 2

\* The table has grown by resizes to eight buckets; a key was then removed
\* (the call returned True), and of the three keys left two share a bucket
\* and two hold different values.
C24_Witness ==
    /\ table_capacity(table) = 8
    /\ returned.op = "remove" /\ returned.result = TRUE
    /\ len(table) = 3
    /\ \E b \in 1..8 : Len(table.buckets[b]) = 2
    /\ \E j, k \in DOMAIN contents : j # k /\ contents[j] # contents[k]

====
